---- MODULE Spec2Model ----
(***************************************************************************)
(* Software PWM of package gpio (gpio.go): one pin, its caller (a single   *)
(* goroutine issuing SetPWM and Close one after the other) and the control *)
(* loop goroutines launched by startPwmLoop.                               *)
(*                                                                         *)
(* Granularity: one step per access to a shared field of the pin           *)
(* (p.pwmLoop, p.quitPwmLoop), per channel operation and per line write.   *)
(* The fields are read and written by caller and loop without              *)
(* synchronisation; they are single words, so a racy read yields the old   *)
(* or the new value, which the interleaving of the steps enumerates.       *)
(* A rendezvous on an unbuffered channel is one step of both parties.      *)
(* Time is abstract: the ticker may fire whenever the loop waits in its    *)
(* select; the length of a hold is recorded, not waited for.               *)
(***************************************************************************)
EXTENDS Integers, FiniteSets, Sequences, TLC

\* ---------------------------------------------------------------- bounds
MaxLoops == 3               \* loop goroutines (and their channels) in existence at once

\* ------------------------------------------------------------- constants
Period == 20000000          \* 20 * time.Millisecond, in ns
Percent == 100              \* time.Duration(100)
FullDuty == 100             \* case v == 100
ZeroDuty == 0               \* case v == 0, value == 0
NilChan == 0                \* a nil channel field

Loops == 1..MaxLoops
Chans == 0..MaxLoops        \* channel k is the pair made for loop k; 0 is nil
Values == {-10, 0, 10, 50, 100, 150}   \* arguments of SetPWM

\* (mutant) the percentage taken for a tenth: (max / 10) * value
valueToDurationTenths(value, max) == (max \div 10) * value

\* valueToDuration(value, max) = (max / 100) * value.  Durations are int64
\* nanoseconds; for the values used here the product stays far below 2^63.
valueToDuration(value, max) == (max \div Percent) * value

VARIABLES
  \* --- the pin
  pwmLoop,        \* p.pwmLoop: 0 (nil) or a channel
  quitPwmLoop,    \* p.quitPwmLoop: 0 (nil) or a channel
  pwmClosed,      \* update channels that were closed
  quitClosed,     \* quit channels that were closed
  fileOpen,       \* p.valueFile is open
  exported,       \* the line is exported
  lastWrite,      \* last write on the line: [level, by, ok]
  \* --- the caller
  cpc,            \* position of the caller
  cop,            \* call in progress: [op, v]
  cch,            \* channel the caller evaluated for its pending send
  lastRet,        \* last call returned: [op, v, err]
  closeSteps,     \* steps the Close in progress / returned last performed: [step, ok]
  \* --- the loops
  lpc,            \* position of each loop
  highDuration,   \* local highDuration of each loop
  selPwm,         \* p.pwmLoop as evaluated by the loop's pending select
  selQuit,        \* p.quitPwmLoop as evaluated by the loop's pending receive
  tickerOn,       \* the loop's ticker is running
  \* --- the program
  panicked,       \* a goroutine panicked: the program is gone
  \* --- history (read by the properties only)
  startValue,     \* initialValue of the call that launched the loop, until an update
  lastDuty,       \* last value other than 0 and 100 the loop received, 0: none yet
  tickDuty,       \* lastDuty when the tick in progress fired
  holdLen,        \* length of the hold in progress
  ownLast,        \* level of the last write each loop made itself, "none": none yet
  loopErr,        \* local err of each loop is not nil (TRUE after a failed tick write)
  answered,       \* the loop replied to a stop request
  stopLoopSeen    \* stopPwmLoop of the last call found a loop attached

pinVars    == <<pwmLoop, quitPwmLoop, pwmClosed, quitClosed>>
lineVars   == <<fileOpen, exported, lastWrite>>
callerVars == <<cpc, cop, cch, lastRet, closeSteps, stopLoopSeen>>
loopVars   == <<lpc, highDuration, selPwm, selQuit, tickerOn>>
histVars   == <<startValue, lastDuty, tickDuty, holdLen, ownLast, loopErr, answered>>
vars == <<pinVars, lineVars, callerVars, loopVars, histVars, panicked>>

NoCall == [op |-> "none", v |-> 0]
NoRet  == [op |-> "none", v |-> 0, err |-> FALSE]
NoWrite == [level |-> "none", by |-> "none", ok |-> TRUE]

\* State after NewPWMPin: line exported, value file open, no loop.
Init ==
  /\ pwmLoop = NilChan /\ quitPwmLoop = NilChan
  /\ pwmClosed = {} /\ quitClosed = {}
  /\ fileOpen = TRUE /\ exported = TRUE
  /\ lastWrite = NoWrite
  /\ cpc = "idle" /\ cop = NoCall /\ cch = NilChan
  /\ lastRet = NoRet /\ closeSteps = <<>>
  /\ stopLoopSeen = FALSE
  /\ lpc = [l \in Loops |-> "none"]
  /\ highDuration = [l \in Loops |-> 0]
  /\ selPwm = [l \in Loops |-> NilChan]
  /\ selQuit = [l \in Loops |-> NilChan]
  /\ tickerOn = [l \in Loops |-> FALSE]
  /\ panicked = FALSE
  /\ startValue = [l \in Loops |-> 0]
  /\ lastDuty = [l \in Loops |-> 0]
  /\ tickDuty = [l \in Loops |-> 0]
  /\ holdLen = [l \in Loops |-> 0]
  /\ ownLast = [l \in Loops |-> "none"]
  /\ loopErr = [l \in Loops |-> FALSE]
  /\ answered = [l \in Loops |-> FALSE]

\* ------------------------------------------------------------ line writes
\* Outcomes of a write on p.valueFile: it may fail at any time, and fails on
\* a closed file.
WriteOutcomes == IF fileOpen THEN {TRUE, FALSE} ELSE {FALSE}

\* SetHigh / SetLow: one WriteString on the value file.
Write(level, by, ok) ==
  /\ lastWrite' = [level |-> level, by |-> by, ok |-> ok]
  /\ UNCHANGED <<fileOpen, exported>>

\* A loop exists from its launch until its deferred cleanup has finished.
Alive(l) == lpc[l] \notin {"none", "done"}

\* make(chan ...) yields a channel nothing refers to yet.  Slot l (loop l and
\* the channel pair l) can be taken when its loop has finished and no field
\* or local still holds its channels.
Free(l) ==
  /\ ~Alive(l)
  /\ pwmLoop # l /\ quitPwmLoop # l /\ cch # l
  /\ \A m \in Loops : Alive(m) => (selPwm[m] # l /\ selQuit[m] # l)

FreshSlot == CHOOSE l \in Loops : Free(l) /\ \A m \in Loops : Free(m) => l <= m

\* ---------------------------------------------------------------- caller
\* return from SetPWM or Close
Return(err) ==
  /\ cpc' = "idle"
  /\ lastRet' = [op |-> cop.op, v |-> cop.v, err |-> err]
  /\ cop' = NoCall

\* The pin can be used until its value file was closed.
PinUsable == fileOpen

\* (mutant) SetPWM hands every value to startPwmLoop
SetPWMBranchAlwaysStart(value) == "startCheck"

\* SetPWM, line 260-265: the branch on value.
SetPWMBranch(value) == IF value = ZeroDuty THEN "stopCheck" ELSE "startCheck"

\* SetPWM(value), line 259-265: value == 0 takes stopPwmLoop, every other
\* value startPwmLoop.
CallSetPWM(v) ==
  /\ ~panicked /\ cpc = "idle" /\ PinUsable
  /\ v # ZeroDuty => (pwmLoop # NilChan \/ \E l \in Loops : Free(l))
  /\ cop' = [op |-> "SetPWM", v |-> v]
  /\ cpc' = SetPWMBranch(v)
  /\ lastRet' = NoRet /\ closeSteps' = <<>> /\ stopLoopSeen' = FALSE
  /\ UNCHANGED cch
  /\ UNCHANGED <<pinVars, lineVars, loopVars, histVars, panicked>>

\* Close(), line 271-274: first stopPwmLoop.
CallClose ==
  /\ ~panicked /\ cpc = "idle" /\ PinUsable
  /\ cop' = [op |-> "Close", v |-> 0]
  /\ cpc' = "stopCheck"
  /\ lastRet' = NoRet /\ closeSteps' = <<>> /\ stopLoopSeen' = FALSE
  /\ UNCHANGED cch
  /\ UNCHANGED <<pinVars, lineVars, loopVars, histVars, panicked>>

\* (mutant) Close goes on to close the value file whatever stopPwmLoop returned
AfterStopIgnoringErr(err) ==
  IF cop.op = "SetPWM"
  THEN cpc' = "setLow" /\ UNCHANGED <<cop, lastRet, closeSteps>>
  ELSE /\ closeSteps' = Append(closeSteps, [step |-> "stop", ok |-> ~err])
       /\ cpc' = "closeFile" /\ UNCHANGED <<cop, lastRet>>

\* What the caller of stopPwmLoop does with its result err: SetPWM drops it
\* and goes on to SetLow (261-262); Close returns it when it is an error and
\* goes on to close the value file otherwise (274-278).
AfterStop(err) ==
  IF cop.op = "SetPWM"
  THEN cpc' = "setLow" /\ UNCHANGED <<cop, lastRet, closeSteps>>
  ELSE /\ closeSteps' = Append(closeSteps, [step |-> "stop", ok |-> ~err])
       /\ IF err THEN Return(TRUE)
                 ELSE cpc' = "closeFile" /\ UNCHANGED <<cop, lastRet>>

\* stopPwmLoop, line 249-251: no loop attached, return nil.
StopCheck ==
  /\ ~panicked /\ cpc = "stopCheck"
  /\ IF pwmLoop = NilChan
     THEN AfterStop(FALSE) /\ UNCHANGED stopLoopSeen
     ELSE /\ cpc' = "stopEval" /\ stopLoopSeen' = TRUE
          /\ UNCHANGED <<cop, lastRet, closeSteps>>
  /\ UNCHANGED cch
  /\ UNCHANGED <<pinVars, lineVars, loopVars, histVars, panicked>>

\* line 252-253: make the reply channel, evaluate p.quitPwmLoop for the send.
StopEval ==
  /\ ~panicked /\ cpc = "stopEval"
  /\ cch' = quitPwmLoop
  /\ cpc' = "stopSend"
  /\ UNCHANGED <<cop, lastRet, closeSteps, stopLoopSeen>>
  /\ UNCHANGED <<pinVars, lineVars, loopVars, histVars, panicked>>

\* The channels a select or receive evaluated are temporaries of that
\* statement: they are dropped when it completes.
LeaveSelect(l) ==
  /\ selPwm' = [selPwm EXCEPT ![l] = NilChan]
  /\ selQuit' = [selQuit EXCEPT ![l] = NilChan]

\* The loop may receive a message only where its code receives one.
\* (mutant) the loop also polls p.quitPwmLoop during the hold
CanRecvQuitInHold(l, c) ==
  \/ lpc[l] \in {"select", "errWait"} /\ selQuit[l] = c
  \/ lpc[l] = "hold" /\ quitPwmLoop = c

\* The loop receives a stop request only in its select (line 213) or, after a
\* failed write, in the receive of line 219 or 228, on the channel it
\* evaluated there.
CanRecvQuit(l, c) == lpc[l] \in {"select", "errWait"} /\ selQuit[l] = c

\* line 253 with line 213, 219 or 228: the stop request passes from the
\* caller to a loop receiving on that channel.  A send on a nil channel never
\* completes.
StopSend(l) ==
  /\ ~panicked /\ cpc = "stopSend"
  /\ cch # NilChan /\ cch \notin quitClosed
  /\ CanRecvQuit(l, cch)
  /\ cpc' = "stopAwait"
  /\ cch' = NilChan
  /\ lpc' = [lpc EXCEPT ![l] = IF lpc[l] = "errWait" THEN "replyErr" ELSE "replyNil"]
  /\ LeaveSelect(l)
  /\ UNCHANGED <<cop, lastRet, closeSteps, stopLoopSeen>>
  /\ UNCHANGED <<highDuration, tickerOn>>
  /\ UNCHANGED <<pinVars, lineVars, histVars, panicked>>

\* return (line 206, 209, 215, 221, 230): the loop leaves its for loop for the
\* deferred cleanup, which reads none of highDuration, err and v.
LoopReturn(l) ==
  /\ lpc' = [lpc EXCEPT ![l] = "cleanup1"]
  /\ highDuration' = [highDuration EXCEPT ![l] = 0]
  /\ startValue' = [startValue EXCEPT ![l] = 0]
  /\ lastDuty' = [lastDuty EXCEPT ![l] = 0]
  /\ ownLast' = [ownLast EXCEPT ![l] = "none"]
  /\ loopErr' = [loopErr EXCEPT ![l] = FALSE]

\* line 255 with line 214, 220 or 229: the loop's reply reaches the caller,
\* stopPwmLoop returns it; the loop goes on to return and its deferred cleanup.
StopReply(l) ==
  /\ ~panicked /\ cpc = "stopAwait"
  /\ lpc[l] \in {"replyNil", "replyErr"}
  /\ AfterStop(IF lpc[l] = "replyErr" THEN loopErr[l] ELSE FALSE)
  /\ LoopReturn(l)
  /\ answered' = [answered EXCEPT ![l] = TRUE]
  /\ UNCHANGED <<cch, stopLoopSeen>>
  /\ UNCHANGED <<selPwm, selQuit, tickerOn, tickDuty, holdLen>>
  /\ UNCHANGED <<pinVars, lineVars, panicked>>

\* A send on a closed channel panics (line 178, 253), whether the channel was
\* closed before the send or while it was blocked.
CallerPanic ==
  /\ ~panicked
  /\ \/ cpc = "stopSend" /\ cch \in quitClosed
     \/ cpc = "startSend" /\ cch \in pwmClosed
  /\ panicked' = TRUE
  /\ UNCHANGED <<pinVars, lineVars, callerVars, loopVars, histVars>>

\* SetPWM, line 262 and 266: p.SetLow() with its error dropped, return nil.
CallerSetLow ==
  /\ ~panicked /\ cpc = "setLow"
  /\ \E ok \in WriteOutcomes : Write("low", "caller", ok)
  /\ Return(FALSE)
  /\ UNCHANGED <<cch, closeSteps, stopLoopSeen>>
  /\ UNCHANGED <<pinVars, loopVars, histVars, panicked>>

\* startPwmLoop, line 177: a loop is attached (send the value to it) or not
\* (make the channels and launch one).
StartCheck ==
  /\ ~panicked /\ cpc = "startCheck"
  /\ cpc' = IF pwmLoop # NilChan THEN "startEval" ELSE "make1"
  /\ UNCHANGED <<cop, cch, lastRet, closeSteps, stopLoopSeen>>
  /\ UNCHANGED <<pinVars, lineVars, loopVars, histVars, panicked>>

\* (mutant) the send of line 178 does not wait for a receiver
StartEvalNoWait ==
  /\ ~panicked /\ cpc = "startEval"
  /\ cch' = NilChan
  /\ Return(FALSE)
  /\ UNCHANGED <<closeSteps, stopLoopSeen>>
  /\ UNCHANGED <<pinVars, lineVars, loopVars, histVars, panicked>>

\* line 178: evaluate p.pwmLoop for the send.
StartEval ==
  /\ ~panicked /\ cpc = "startEval"
  /\ cch' = pwmLoop
  /\ cpc' = "startSend"
  /\ UNCHANGED <<cop, lastRet, closeSteps, stopLoopSeen>>
  /\ UNCHANGED <<pinVars, lineVars, loopVars, histVars, panicked>>

\* (mutant) the loop also polls p.pwmLoop during the hold
CanRecvUpdateInHold(l, c) ==
  \/ lpc[l] = "select" /\ selPwm[l] = c
  \/ lpc[l] = "hold" /\ pwmLoop = c

\* The loop receives an update only in its select, on the channel the select
\* evaluated (line 201-202).
CanRecvUpdate(l, c) == lpc[l] = "select" /\ selPwm[l] = c

\* Position of the loop after it received v (line 203-212).
AfterUpdate(v) ==
  IF v = ZeroDuty THEN "setLowExit"
  ELSE IF v = FullDuty THEN "setHighExit"
  ELSE "evalPwm"

\* highDuration after the loop received v (line 211): the boundary values
\* leave it alone.
UpdatedDuration(old, v) ==
  IF v = ZeroDuty \/ v = FullDuty THEN old ELSE valueToDuration(v, Period)

\* line 178-179 with line 202-212: the value passes from the caller to a loop
\* selecting on that channel; startPwmLoop and SetPWM return (266).
StartSend(l) ==
  /\ ~panicked /\ cpc = "startSend"
  /\ cch # NilChan /\ cch \notin pwmClosed
  /\ CanRecvUpdate(l, cch)
  /\ cch' = NilChan
  /\ Return(FALSE)
  /\ lpc' = [lpc EXCEPT ![l] = AfterUpdate(cop.v)]
  /\ highDuration' = [highDuration EXCEPT ![l] = UpdatedDuration(@, cop.v)]
  /\ lastDuty' = [lastDuty EXCEPT ![l] = IF cop.v \in {ZeroDuty, FullDuty} THEN @ ELSE cop.v]
  /\ startValue' = [startValue EXCEPT ![l] = 0]
  /\ LeaveSelect(l)
  /\ UNCHANGED <<closeSteps, stopLoopSeen>>
  /\ UNCHANGED <<tickerOn, tickDuty, holdLen, ownLast, loopErr, answered>>
  /\ UNCHANGED <<pinVars, lineVars, panicked>>

\* line 181: p.pwmLoop = make(chan int)
StartMake1 ==
  /\ ~panicked /\ cpc = "make1"
  /\ \E l \in Loops : Free(l)
  /\ cch' = FreshSlot
  /\ pwmLoop' = FreshSlot
  /\ pwmClosed' = pwmClosed \ {FreshSlot}
  /\ cpc' = "make2"
  /\ UNCHANGED <<quitPwmLoop, quitClosed>>
  /\ UNCHANGED <<cop, lastRet, closeSteps, stopLoopSeen>>
  /\ UNCHANGED <<lineVars, loopVars, histVars, panicked>>

\* line 182: p.quitPwmLoop = make(chan chan error)
StartMake2 ==
  /\ ~panicked /\ cpc = "make2"
  /\ quitPwmLoop' = cch
  /\ quitClosed' = quitClosed \ {cch}
  /\ cpc' = "go"
  /\ UNCHANGED <<pwmLoop, pwmClosed>>
  /\ UNCHANGED <<cop, cch, lastRet, closeSteps, stopLoopSeen>>
  /\ UNCHANGED <<lineVars, loopVars, histVars, panicked>>

\* highDuration of a loop at its launch (line 187): the zero value, whatever
\* initialValue is.
InitialDuration(initialValue) == 0

\* line 184-199 and 266: launch the goroutine (its locals, its ticker, its
\* deferred cleanup); startPwmLoop and SetPWM return.  initialValue is not
\* passed on to the loop.
StartGo ==
  /\ ~panicked /\ cpc = "go"
  /\ lpc' = [lpc EXCEPT ![cch] = "evalPwm"]
  /\ highDuration' = [highDuration EXCEPT ![cch] = InitialDuration(cop.v)]
  /\ selPwm' = [selPwm EXCEPT ![cch] = NilChan]
  /\ selQuit' = [selQuit EXCEPT ![cch] = NilChan]
  /\ tickerOn' = [tickerOn EXCEPT ![cch] = TRUE]
  /\ startValue' = [startValue EXCEPT ![cch] = cop.v]
  /\ lastDuty' = [lastDuty EXCEPT ![cch] = 0]
  /\ tickDuty' = [tickDuty EXCEPT ![cch] = 0]
  /\ holdLen' = [holdLen EXCEPT ![cch] = 0]
  /\ ownLast' = [ownLast EXCEPT ![cch] = "none"]
  /\ loopErr' = [loopErr EXCEPT ![cch] = FALSE]
  /\ answered' = [answered EXCEPT ![cch] = FALSE]
  /\ cch' = NilChan
  /\ Return(FALSE)
  /\ UNCHANGED <<closeSteps, stopLoopSeen>>
  /\ UNCHANGED <<pinVars, lineVars, panicked>>

\* Close, line 278-280: p.valueFile.Close(); its error ends Close.
CloseFile ==
  /\ ~panicked /\ cpc = "closeFile"
  /\ \E ok \in BOOLEAN :
       /\ closeSteps' = Append(closeSteps, [step |-> "closeFile", ok |-> ok])
       /\ IF ok THEN /\ fileOpen' = FALSE
                     /\ cpc' = "unexport"
                     /\ UNCHANGED <<cop, lastRet>>
                ELSE /\ Return(TRUE)
                     /\ UNCHANGED fileOpen
  /\ UNCHANGED <<exported, lastWrite>>
  /\ UNCHANGED <<cch, stopLoopSeen>>
  /\ UNCHANGED <<pinVars, loopVars, histVars, panicked>>

\* Close, line 282: return p.unexportChannel()
Unexport ==
  /\ ~panicked /\ cpc = "unexport"
  /\ \E ok \in BOOLEAN :
       /\ closeSteps' = Append(closeSteps, [step |-> "unexport", ok |-> ok])
       /\ exported' = IF ok THEN FALSE ELSE exported
       /\ Return(~ok)
  /\ UNCHANGED <<fileOpen, lastWrite>>
  /\ UNCHANGED <<cch, stopLoopSeen>>
  /\ UNCHANGED <<pinVars, loopVars, histVars, panicked>>

\* ------------------------------------------------------------------ loop
\* line 201-202: entering the select, the loop evaluates p.pwmLoop ...
LoopEvalPwm(l) ==
  /\ ~panicked /\ lpc[l] = "evalPwm"
  /\ selPwm' = [selPwm EXCEPT ![l] = pwmLoop]
  /\ lpc' = [lpc EXCEPT ![l] = "evalQuit"]
  /\ UNCHANGED <<highDuration, selQuit, tickerOn>>
  /\ UNCHANGED <<pinVars, lineVars, callerVars, histVars, panicked>>

\* line 213: ... and p.quitPwmLoop, then waits.
LoopEvalQuit(l) ==
  /\ ~panicked /\ lpc[l] = "evalQuit"
  /\ selQuit' = [selQuit EXCEPT ![l] = quitPwmLoop]
  /\ lpc' = [lpc EXCEPT ![l] = "select"]
  /\ UNCHANGED <<highDuration, selPwm, tickerOn>>
  /\ UNCHANGED <<pinVars, lineVars, callerVars, histVars, panicked>>

\* line 216: the ticker fired.
LoopTick(l) ==
  /\ ~panicked /\ lpc[l] = "select" /\ tickerOn[l]
  /\ lpc' = [lpc EXCEPT ![l] = "tickHigh"]
  /\ tickDuty' = [tickDuty EXCEPT ![l] = lastDuty[l]]
  /\ LeaveSelect(l)
  /\ UNCHANGED <<highDuration, tickerOn>>
  /\ UNCHANGED <<startValue, lastDuty, holdLen, ownLast, loopErr, answered>>
  /\ UNCHANGED <<pinVars, lineVars, callerVars, panicked>>

\* line 217-224: err = p.SetHigh(); on an error wait for a stop request,
\* otherwise time.Sleep(highDuration).
LoopTickHigh(l) ==
  /\ ~panicked /\ lpc[l] = "tickHigh"
  /\ \E ok \in WriteOutcomes :
       /\ Write("high", "loop", ok)
       /\ lpc' = [lpc EXCEPT ![l] = IF ok THEN "hold" ELSE "errEval"]
       /\ holdLen' = [holdLen EXCEPT ![l] = IF ok THEN highDuration[l] ELSE @]
       /\ ownLast' = [ownLast EXCEPT ![l] = IF ok THEN "high" ELSE @]
       /\ loopErr' = [loopErr EXCEPT ![l] = ~ok]
  /\ UNCHANGED <<highDuration, selPwm, selQuit, tickerOn>>
  /\ UNCHANGED <<startValue, lastDuty, tickDuty, answered>>
  /\ UNCHANGED <<pinVars, callerVars, panicked>>

\* line 224-231: the hold ends; err = p.SetLow(); on an error wait for a stop
\* request, otherwise back to the select.
LoopTickLow(l) ==
  /\ ~panicked /\ lpc[l] = "hold"
  /\ \E ok \in WriteOutcomes :
       /\ Write("low", "loop", ok)
       /\ lpc' = [lpc EXCEPT ![l] = IF ok THEN "evalPwm" ELSE "errEval"]
       /\ ownLast' = [ownLast EXCEPT ![l] = IF ok THEN "low" ELSE @]
       /\ loopErr' = [loopErr EXCEPT ![l] = ~ok]
  /\ tickDuty' = [tickDuty EXCEPT ![l] = 0]
  /\ holdLen' = [holdLen EXCEPT ![l] = 0]
  /\ UNCHANGED <<highDuration, selPwm, selQuit, tickerOn>>
  /\ UNCHANGED <<startValue, lastDuty, answered>>
  /\ UNCHANGED <<pinVars, callerVars, panicked>>

\* line 219, 228: reply := <-p.quitPwmLoop evaluates the field, then waits
\* (forever on a nil channel).
LoopErrEval(l) ==
  /\ ~panicked /\ lpc[l] = "errEval"
  /\ selQuit' = [selQuit EXCEPT ![l] = quitPwmLoop]
  /\ lpc' = [lpc EXCEPT ![l] = "errWait"]
  /\ tickDuty' = [tickDuty EXCEPT ![l] = 0]
  /\ holdLen' = [holdLen EXCEPT ![l] = 0]
  /\ UNCHANGED <<highDuration, selPwm, tickerOn>>
  /\ UNCHANGED <<startValue, lastDuty, ownLast, loopErr, answered>>
  /\ UNCHANGED <<pinVars, lineVars, callerVars, panicked>>

\* line 205-206, 208-209: the boundary values force the line and return.
LoopBoundaryWrite(l) ==
  /\ ~panicked /\ lpc[l] \in {"setLowExit", "setHighExit"}
  /\ \E ok \in WriteOutcomes :
       Write(IF lpc[l] = "setLowExit" THEN "low" ELSE "high", "loop", ok)
  /\ LoopReturn(l)
  /\ UNCHANGED <<selPwm, selQuit, tickerOn, tickDuty, holdLen, answered>>
  /\ UNCHANGED <<pinVars, callerVars, panicked>>

\* close(c) panics on a nil and on a closed channel.
ClosePanics(c, closed) == c = NilChan \/ c \in closed

\* line 191: close(p.pwmLoop)
LoopCleanup1(l) ==
  /\ ~panicked /\ lpc[l] = "cleanup1"
  /\ IF ClosePanics(pwmLoop, pwmClosed)
     THEN panicked' = TRUE /\ UNCHANGED <<pwmClosed, lpc>>
     ELSE /\ pwmClosed' = pwmClosed \cup {pwmLoop}
          /\ lpc' = [lpc EXCEPT ![l] = "cleanup2"]
          /\ UNCHANGED panicked
  /\ UNCHANGED <<pwmLoop, quitPwmLoop, quitClosed>>
  /\ UNCHANGED <<highDuration, selPwm, selQuit, tickerOn>>
  /\ UNCHANGED <<lineVars, callerVars, histVars>>

\* line 192: close(p.quitPwmLoop)
LoopCleanup2(l) ==
  /\ ~panicked /\ lpc[l] = "cleanup2"
  /\ IF ClosePanics(quitPwmLoop, quitClosed)
     THEN panicked' = TRUE /\ UNCHANGED <<quitClosed, lpc>>
     ELSE /\ quitClosed' = quitClosed \cup {quitPwmLoop}
          /\ lpc' = [lpc EXCEPT ![l] = "cleanup3"]
          /\ UNCHANGED panicked
  /\ UNCHANGED <<pwmLoop, quitPwmLoop, pwmClosed>>
  /\ UNCHANGED <<highDuration, selPwm, selQuit, tickerOn>>
  /\ UNCHANGED <<lineVars, callerVars, histVars>>

\* line 194: p.pwmLoop = nil
LoopCleanup3(l) ==
  /\ ~panicked /\ lpc[l] = "cleanup3"
  /\ pwmLoop' = NilChan
  /\ lpc' = [lpc EXCEPT ![l] = "cleanup4"]
  /\ UNCHANGED <<quitPwmLoop, pwmClosed, quitClosed>>
  /\ UNCHANGED <<highDuration, selPwm, selQuit, tickerOn>>
  /\ UNCHANGED <<lineVars, callerVars, histVars, panicked>>

\* Channel k is garbage once loop l is gone: nothing refers to it any more.
Garbage(k, l) ==
  /\ k = l \/ ~Alive(k)
  /\ pwmLoop # k /\ cch # k
  /\ \A m \in Loops \ {l} : Alive(m) => (selPwm[m] # k /\ selQuit[m] # k)

\* line 195-197: p.quitPwmLoop = nil, then ticker.Stop() (local to the loop):
\* the goroutine is gone, and so are its locals and the channels nothing
\* refers to.
LoopCleanup4(l) ==
  /\ ~panicked /\ lpc[l] = "cleanup4"
  /\ quitPwmLoop' = NilChan
  /\ tickerOn' = [tickerOn EXCEPT ![l] = FALSE]
  /\ lpc' = [lpc EXCEPT ![l] = "done"]
  /\ pwmClosed' = {k \in pwmClosed : ~Garbage(k, l)}
  /\ quitClosed' = {k \in quitClosed : ~Garbage(k, l)}
  /\ answered' = [answered EXCEPT ![l] = FALSE]
  /\ UNCHANGED <<pwmLoop, highDuration, selPwm, selQuit>>
  /\ UNCHANGED <<startValue, lastDuty, tickDuty, holdLen, ownLast, loopErr>>
  /\ UNCHANGED <<lineVars, callerVars, panicked>>

\* ---------------------------------------------------------- specification
CallerStep ==
  \/ \E v \in Values : CallSetPWM(v)
  \/ CallClose
  \/ StopCheck
  \/ StopEval
  \/ CallerPanic
  \/ CallerSetLow
  \/ StartCheck
  \/ StartEval
  \/ StartMake1
  \/ StartMake2
  \/ StartGo
  \/ CloseFile
  \/ Unexport

LoopStep(l) ==
  \/ StopSend(l)
  \/ StopReply(l)
  \/ StartSend(l)
  \/ LoopEvalPwm(l)
  \/ LoopEvalQuit(l)
  \/ LoopTick(l)
  \/ LoopTickHigh(l)
  \/ LoopTickLow(l)
  \/ LoopErrEval(l)
  \/ LoopBoundaryWrite(l)
  \/ LoopCleanup1(l)
  \/ LoopCleanup2(l)
  \/ LoopCleanup3(l)
  \/ LoopCleanup4(l)

Next == CallerStep \/ \E l \in Loops : LoopStep(l)

Spec == Init /\ [][Next]_vars

TypeOK ==
  /\ pwmLoop \in Chans /\ quitPwmLoop \in Chans /\ cch \in Chans
  /\ pwmClosed \subseteq Loops /\ quitClosed \subseteq Loops
  /\ \A l \in Loops : selPwm[l] \in Chans /\ selQuit[l] \in Chans

\* A receive on a closed channel would complete at once (with 0, or with a nil
\* reply channel).  No loop ever waits on a closed channel, so the loop's
\* steps above need not provide for it.
NoReceiveOnClosed ==
  \A l \in Loops :
    /\ lpc[l] = "select" => (selPwm[l] \notin pwmClosed /\ selQuit[l] \notin quitClosed)
    /\ lpc[l] = "errWait" => selQuit[l] \notin quitClosed

\* ------------------------------------------------------------ properties
AliveLoops == {l \in Loops : Alive(l)}
Returned(op) == cpc = "idle" /\ lastRet.op = op
NoLoopAttached == pwmLoop = NilChan /\ quitPwmLoop = NilChan /\ AliveLoops = {}

\* C1: with a caller that issues SetPWM and Close one after the other, at most
\* one control loop goroutine is alive at any time (alive: from its launch to
\* the end of its deferred cleanup).
C1_AtMostOneLoop == Cardinality(AliveLoops) <= 1

\* C2: after SetPWM(0) has returned, the last write on the line is the
\* caller's Low and no loop is attached: the fields are nil and no loop
\* goroutine is alive.
C2_AfterSetPWM0 ==
  (Returned("SetPWM") /\ lastRet.v = ZeroDuty) =>
     /\ lastWrite.level = "low" /\ lastWrite.by = "caller"
     /\ NoLoopAttached

\* C3: after SetPWM(100) has returned, the line has been forced High as its
\* last write and no loop remains attached or running.
C3_AfterSetPWM100 ==
  (Returned("SetPWM") /\ lastRet.v = FullDuty) =>
     /\ lastWrite.level = "high"
     /\ NoLoopAttached

\* C4: a loop started by SetPWM(v), v in 1..99, holds High for period * v/100
\* in every tick until it accepts an update.
C4_InitialDutyUsed ==
  \A l \in Loops :
    (lpc[l] = "hold" /\ startValue[l] \in 1..99) =>
       holdLen[l] = valueToDuration(startValue[l], Period)

\* C5: a Close that found a loop attached does not return before that loop
\* has exited: once it has returned no loop goroutine is alive.
C5_CloseWaitsForExit == (Returned("Close") /\ stopLoopSeen) => AliveLoops = {}

\* C6: the length of a hold is fixed by the duty value the loop accepted last
\* before the tick of that cycle: while the loop holds High it accepts no
\* update, its high-duration does not change and the hold ends with the Low
\* write; an update sent meanwhile takes effect from the next cycle on.
C6_HoldFixedAtTick ==
  [][\A l \in Loops :
       /\ lpc[l] = "hold" =>
            /\ lpc'[l] \in {"hold", "evalPwm", "errEval"}
            /\ highDuration'[l] = highDuration[l]
       /\ lpc'[l] = "hold" => holdLen'[l] = valueToDuration(tickDuty'[l], Period)]_vars

\* C6 witness: a loop at 50 holds High for 10 ms while SetPWM(10) waits on
\* its update channel.
C6_Witness ==
  /\ cpc = "startSend" /\ cop.v = 10
  /\ \E l \in Loops : /\ lpc[l] = "hold" /\ cch = l
                      /\ tickDuty[l] = 50 /\ holdLen[l] = 10000000

\* C7: SetPWM never fails: a call in progress always completes (and returns
\* nil), whatever the line writes did.  Stated on finite runs: while a SetPWM
\* is in progress and the program has not panicked, some step is possible.
C7_SetPWMCompletes == (cop.op = "SetPWM" /\ ~panicked) => ENABLED Next

\* C8: Close performs stop, close value file, unexport in that order and
\* stops at the first error, which it returns; it returns nil only when all
\* three succeeded.
CloseOrder == <<"stop", "closeFile", "unexport">>
StepDone(step) == \E i \in 1..Len(closeSteps) : closeSteps[i] = [step |-> step, ok |-> TRUE]
C8_CloseOrder ==
  /\ Len(closeSteps) <= Len(CloseOrder)
  /\ \A i \in 1..Len(closeSteps) :
       /\ closeSteps[i].step = CloseOrder[i]
       /\ i < Len(closeSteps) => closeSteps[i].ok
  /\ ~fileOpen <=> StepDone("closeFile")
  /\ ~exported <=> StepDone("unexport")
  /\ Returned("Close") =>
       /\ closeSteps # <<>>
       /\ lastRet.err <=> ~closeSteps[Len(closeSteps)].ok
       /\ ~lastRet.err => Len(closeSteps) = Len(CloseOrder)

\* C8 witness: Close returned the error of the stop reply; the value file is
\* still open and the line still exported.
C8_Witness ==
  /\ Returned("Close") /\ lastRet.err
  /\ closeSteps = <<[step |-> "stop", ok |-> FALSE]>>
  /\ fileOpen /\ exported

\* C9: Close leaves the line as SetPWM(0) would: when it goes on to close the
\* value file, the line is not held High.
LineHeldHigh == lastWrite.level = "high" /\ lastWrite.ok
C9_CloseLeavesLow == cpc = "closeFile" => ~LineHeldHigh

\* C10 as stated: in every reachable state the high-duration of every loop
\* lies within [0, period].
C10_DurationWithinPeriod ==
  \A l \in Loops : highDuration[l] >= 0 /\ highDuration[l] <= Period

\* C10 amended: SetPWM validates nothing; the high-duration of a loop is
\* (period / 100) * v for the last value v other than 0 and 100 it accepted
\* (0 before any), which lies within [0, period] when v lies in [0, 100].
C10_DurationFollowsValue ==
  \A l \in Loops :
    /\ highDuration[l] = valueToDuration(lastDuty[l], Period)
    /\ lastDuty[l] \in 0..100 => (highDuration[l] >= 0 /\ highDuration[l] <= Period)

\* C10 witness: a loop accepted 150 and holds High for 30 ms of its 20 ms period.
C10_Witness ==
  \E l \in Loops : lpc[l] = "hold" /\ lastDuty[l] = 150 /\ holdLen[l] = 30000000

\* The caller is inside stopPwmLoop (line 248-255).
StopRequested == cpc \in {"stopCheck", "stopEval", "stopSend", "stopAwait"}

\* C11: when a High or Low write fails inside a tick and no stop request has
\* been issued, the loop terminates on its own: it never waits for a stop
\* request to arrive.
C11_FailedWriteExits ==
  \A l \in Loops : lpc[l] = "errWait" => StopRequested

\* Loops that received a stop request and have not replied yet.
Repliers == {l \in Loops : lpc[l] \in {"replyNil", "replyErr"}}

\* C12: a stop request is answered exactly once (one loop holds the reply of
\* the request the caller awaits, and none otherwise), with nil when no write
\* of that loop failed and with the error when one failed; the loop that
\* answered then runs its cleanup to the end, closing channels that can be
\* closed.
C12_StopAnswered ==
  /\ Cardinality(Repliers) <= 1
  /\ (cpc = "stopAwait") <=> (Repliers # {})
  /\ \A l \in Loops :
       /\ lpc[l] = "replyNil" => ~loopErr[l]
       /\ lpc[l] = "replyErr" => loopErr[l]
       /\ (answered[l] /\ lpc[l] = "cleanup1") => ~ClosePanics(pwmLoop, pwmClosed)
       /\ (answered[l] /\ lpc[l] = "cleanup2") => ~ClosePanics(quitPwmLoop, quitClosed)

\* The steps of a call in progress; issuing a call is the caller's choice.
CallerProgress ==
  \/ StopCheck
  \/ StopEval
  \/ CallerPanic
  \/ CallerSetLow
  \/ StartCheck
  \/ StartEval
  \/ StartMake1
  \/ StartMake2
  \/ StartGo
  \/ CloseFile
  \/ Unexport

\* The goroutines are scheduled fairly and the ticker keeps firing; a select
\* with several ready cases picks among them at random, so a message offered
\* again and again to a loop that keeps coming back to its select is taken.
FairSpec ==
  /\ Spec
  /\ WF_vars(CallerProgress)
  /\ \A l \in Loops :
       /\ WF_vars(LoopStep(l))
       /\ SF_vars(StartSend(l))
       /\ SF_vars(StopSend(l))

\* C13: under fair scheduling of the loop goroutine and the ticker, every
\* SetPWM and every Close the caller issues eventually returns.
C13_CallsReturn == (cpc # "idle") ~> (cpc = "idle")

\* The step in which the caller's pending update (resp. stop request) is taken.
UpdateTaken == cpc = "startSend" /\ cpc' = "idle"
StopTaken == cpc = "stopSend" /\ cpc' = "stopAwait"

\* C14: a loop takes a message only where it waits for one, never between the
\* High write of a tick and its Low write: an update is taken by a loop in its
\* select whose own last write was not High, a stop request by a loop in its
\* select (own last write not High) or waiting after a failed write; a hold
\* ends in the Low write or in its failure; and a loop about to answer nil
\* has not left the line High itself.
C14_ReceiveOnlyInSelect ==
  [][ /\ UpdateTaken =>
           \E l \in Loops : /\ lpc'[l] # lpc[l]
                            /\ lpc[l] = "select"
                            /\ ownLast[l] # "high"
      /\ StopTaken =>
           \E l \in Loops : /\ lpc'[l] # lpc[l]
                            /\ lpc[l] \in {"select", "errWait"}
                            /\ lpc[l] = "select" => ownLast[l] # "high"
      /\ \A l \in Loops :
           /\ lpc[l] = "hold" => lpc'[l] \in {"hold", "evalPwm", "errEval"}
           /\ (lpc[l] = "hold" /\ lpc'[l] = "evalPwm") => ownLast'[l] = "low"
           /\ lpc'[l] = "replyNil" => ownLast'[l] # "high"
    ]_vars

\* C14 witness: a loop that completed a tick (High, hold, Low) took a stop
\* request in its select and is about to answer nil.
C14_Witness ==
  \E l \in Loops : lpc[l] = "replyNil" /\ ownLast[l] = "low" /\ cpc = "stopAwait"

\* C15: the caller hands over one message at a time and waits for it to be
\* taken: a SetPWM(v), v # 0, returns only by launching a loop or in the step
\* in which a loop takes v; a pending update is taken by exactly one loop,
\* which applies exactly that value; a pending stop request is taken by
\* exactly one loop, and stopPwmLoop goes on only with that loop's reply.
C15_MessagesInOrder ==
  [][ /\ (cop.op = "SetPWM" /\ cop.v # ZeroDuty /\ cpc # "idle" /\ cpc' = "idle")
           => cpc \in {"startSend", "go"}
      /\ UpdateTaken =>
           \E l \in Loops :
             /\ lpc[l] = "select"
             /\ lpc'[l] = IF cop.v = FullDuty THEN "setHighExit" ELSE "evalPwm"
             /\ cop.v # FullDuty =>
                  /\ highDuration'[l] = valueToDuration(cop.v, Period)
                  /\ lastDuty'[l] = cop.v
             /\ \A m \in Loops \ {l} :
                  lpc'[m] = lpc[m] /\ highDuration'[m] = highDuration[m]
      /\ (cpc = "stopSend" /\ cpc' # "stopSend") =>
           /\ cpc' = "stopAwait"
           /\ \E l \in Loops :
                /\ lpc[l] \in {"select", "errWait"}
                /\ lpc'[l] \in {"replyNil", "replyErr"}
                /\ \A m \in Loops \ {l} : lpc'[m] = lpc[m]
      /\ (cpc = "stopAwait" /\ cpc' # "stopAwait") =>
           \E l \in Loops : lpc[l] \in {"replyNil", "replyErr"} /\ lpc'[l] = "cleanup1"
    ]_vars

\* C15 witness: a loop that took an update earlier has now taken the stop
\* request of the next call.
C15_Witness ==
  \E l \in Loops : lastDuty[l] # 0 /\ lpc[l] = "replyNil"

\* C16: the caller installs new channels (line 181-182) only when no loop
\* goroutine is alive, and a loop's cleanup closes and clears only the
\* channels that loop was started with (a loop and its channels carry the
\* same number).
C16_SingleWriter ==
  /\ cpc \in {"make1", "make2", "go"} => AliveLoops = {}
  /\ \A l \in Loops :
       /\ lpc[l] \in {"cleanup1", "cleanup3"} => pwmLoop = l
       /\ lpc[l] \in {"cleanup2", "cleanup4"} => quitPwmLoop = l

\* C17: the caller never sends on a closed or nil channel (line 178, 253),
\* and a loop's cleanup never closes a nil or closed channel (line 191-192);
\* no goroutine panics.
C17_NoBadChannelOp ==
  /\ ~panicked
  /\ cpc = "startSend" => (cch # NilChan /\ cch \notin pwmClosed)
  /\ cpc = "stopSend" => (cch # NilChan /\ cch \notin quitClosed)
  /\ \A l \in Loops :
       /\ lpc[l] = "cleanup1" => ~ClosePanics(pwmLoop, pwmClosed)
       /\ lpc[l] = "cleanup2" => ~ClosePanics(quitPwmLoop, quitClosed)

\* ------------------------------------------------ valueToDuration alone
\* The percentages SetPWM is documented for (line 43).
Duties == ZeroDuty..FullDuty

\* A loop waits in its select while the caller offers it a percentage.
DurationInit ==
  /\ pwmLoop = 1 /\ quitPwmLoop = 1
  /\ pwmClosed = {} /\ quitClosed = {}
  /\ fileOpen = TRUE /\ exported = TRUE
  /\ lastWrite = NoWrite
  /\ cpc = "startSend" /\ cch = 1
  /\ \E v \in Duties : cop = [op |-> "SetPWM", v |-> v]
  /\ lastRet = NoRet /\ closeSteps = <<>>
  /\ stopLoopSeen = FALSE
  /\ lpc = [l \in Loops |-> IF l = 1 THEN "select" ELSE "none"]
  /\ highDuration = [l \in Loops |-> 0]
  /\ selPwm = [l \in Loops |-> IF l = 1 THEN 1 ELSE NilChan]
  /\ selQuit = [l \in Loops |-> IF l = 1 THEN 1 ELSE NilChan]
  /\ tickerOn = [l \in Loops |-> l = 1]
  /\ panicked = FALSE
  /\ startValue = [l \in Loops |-> 0]
  /\ lastDuty = [l \in Loops |-> 0]
  /\ tickDuty = [l \in Loops |-> 0]
  /\ holdLen = [l \in Loops |-> 0]
  /\ ownLast = [l \in Loops |-> "none"]
  /\ loopErr = [l \in Loops |-> FALSE]
  /\ answered = [l \in Loops |-> FALSE]

\* line 211 on its own: highDuration = valueToDuration(v, period), for every
\* percentage (the boundary values included).
DurationApply(l) ==
  /\ lpc[l] = "select" /\ CanRecvUpdate(l, cch)
  /\ highDuration' = [highDuration EXCEPT ![l] = valueToDuration(cop.v, Period)]
  /\ lpc' = [lpc EXCEPT ![l] = "evalPwm"]
  /\ LeaveSelect(l)
  /\ UNCHANGED tickerOn
  /\ UNCHANGED <<pinVars, lineVars, callerVars, histVars, panicked>>

DurationNext == \E l \in Loops : DurationApply(l)

DurationSpec == DurationInit /\ [][DurationNext]_vars

\* C18: for every percentage v in 0..100, valueToDuration(v, 20 ms) is
\* 20 ms * v / 100 exactly, lies within [0, 20 ms] and does not decrease with
\* v; 50 gives 10 ms and 10 gives 2 ms.
C18_DurationExact ==
  \A l \in Loops : lpc[l] = "evalPwm" =>
    /\ highDuration[l] * Percent = Period * cop.v
    /\ highDuration[l] >= 0 /\ highDuration[l] <= Period
    /\ \A w \in Duties : w <= cop.v => valueToDuration(w, Period) <= highDuration[l]
    /\ cop.v = 50 => highDuration[l] = 10000000
    /\ cop.v = 10 => highDuration[l] = 2000000

\* C18 witness: 50 was converted, to 10 ms.
C18_Witness ==
  \E l \in Loops : lpc[l] = "evalPwm" /\ cop.v = 50 /\ highDuration[l] = 10000000

\* The caller is inside startPwmLoop (line 176-235).
InStartPwmLoop == cpc \in {"startCheck", "startEval", "startSend", "make1", "make2", "go"}

\* C19: SetPWM(0) never enters startPwmLoop, no loop waits on a closed update
\* channel (a receive on one would yield 0), and no loop is ever in the
\* v == 0 branch of line 204-206.
C19_ZeroNeverDelivered ==
  /\ InStartPwmLoop => cop.v # ZeroDuty
  /\ \A l \in Loops :
       /\ lpc[l] = "select" => selPwm[l] \notin pwmClosed
       /\ lpc[l] # "setLowExit"

\* C19 witness: SetPWM(0) with a loop attached went through the stop
\* handshake and awaits the loop's reply.
C19_Witness ==
  /\ cop = [op |-> "SetPWM", v |-> ZeroDuty]
  /\ cpc = "stopAwait"
  /\ Repliers # {}

====
